---- MODULE Spec2Model ----
(***************************************************************************)
(* The terminal session manager and the command gate of Desktop Commander. *)
(*                                                                         *)
(* The repository holds two session managers:                              *)
(*   "tm"  the class TerminalManager (terminal_manager.py) behind the      *)
(*         tool layer tools/execute.py, dispatched by MCPServer.run        *)
(*         (server.py), which awaits one request before reading the next;  *)
(*   "mi"  the module-level functions of mcp_implementation.py (the same   *)
(*         text is in tools/terminal.py), dispatched by FastMCP, which     *)
(*         serves requests concurrently on one event loop.                 *)
(* Init picks one of them; every action branches on impl where the two     *)
(* texts differ.                                                           *)
(*                                                                         *)
(* A child process is h (the Popen object, numbered in spawn order); its   *)
(* OS process id is proc[h].pid, which the OS may hand out again once the  *)
(* child has been reaped.  Everything between two awaits of a coroutine    *)
(* is one step of the event loop; the children run beside it.              *)
(***************************************************************************)
EXTENDS Integers, Sequences, FiniteSets, TLC

VARIABLES
    impl,               \* which session manager is running: "tm" or "mi"
    blocked_commands,   \* CommandManager.blocked_commands
    active_sessions,    \* sessions / active_sessions: pid -> session object (h)
    completed_sessions, \* completed_sessions: the dict in insertion order
    proc,               \* h -> the child process and its Popen object
    sess,               \* h -> the session object created for that child
    call,               \* h -> the execute_command call that spawned h
    cur,                \* the call that holds the event loop (before its first await,
                        \* or inside communicate()), or 0
    delayed,            \* h -> pending delayed_kill tasks (TerminalManager)
    log,                \* h -> signals sent to the child and grace-period checks
    clock,              \* number of completed records written so far (end_time)
    last                \* the response of the last step, where responses are observed

vars == <<impl, blocked_commands, active_sessions, completed_sessions, proc,
          sess, call, cur, delayed, log, clock, last>>

----------------------------------------------------------------------------
\* Bounds of the model.
MaxProcs == 2       \* execute_command calls that reach Popen
MaxPid == 2         \* process ids the OS hands out to them
MaxChunks == 1      \* chunks one child writes
MaxLog == 1         \* a TerminalManager session is force-terminated while its log is shorter

\* Constants of the program.
MaxCompleted == 100
SleepMs == 100
SIGINT == 2
SIGKILL == 9
SIGTERM == 15
ForceKilled == -9

Procs == 1..MaxProcs
PIDS == 1..MaxPid
None == <<>>                      \* Python None, for Optional values <<v>>
Some(v) == <<v>>
ExitCodes == {0}                  \* exit statuses of a child that ends on its own
TimeoutsMs == {Some(200)}
Streams == {"stdout", "stderr"}

----------------------------------------------------------------------------
\* Command lines are sequences of characters.
Space == " "
cmd_ls == <<"l", "s">>
cmd_su == <<"s", "u">>
cmd_SU_ls == <<"S", "u", Space, "l", "s">>
cmd_empty == <<>>
cmd_blank == <<Space>>
Commands == {cmd_ls, cmd_su, cmd_SU_ls, cmd_empty, cmd_blank}

\* str.lower
LowerChar(ch) == CASE ch = "S" -> "s" [] ch = "U" -> "u" [] ch = "L" -> "l" [] OTHER -> ch
lower(s) == [i \in DOMAIN s |-> LowerChar(s[i])]

\* str.strip
RECURSIVE lstrip(_)
lstrip(s) == IF s # <<>> /\ Head(s) = Space THEN lstrip(Tail(s)) ELSE s
RECURSIVE rstrip(_)
rstrip(s) == IF s # <<>> /\ s[Len(s)] = Space THEN rstrip(SubSeq(s, 1, Len(s) - 1)) ELSE s
strip(s) == rstrip(lstrip(s))

\* str.split(): the whitespace-delimited tokens
RECURSIVE FirstToken(_)
FirstToken(s) == IF s = <<>> \/ Head(s) = Space THEN <<>> ELSE <<Head(s)>> \o FirstToken(Tail(s))
RECURSIVE split(_)
split(s) ==
    LET t == lstrip(s) IN
    IF t = <<>> THEN <<>>
    ELSE LET tok == FirstToken(t) IN <<tok>> \o split(SubSeq(t, Len(tok) + 1, Len(t)))

\* validate_command raises IndexError when split() is empty
GateRaises(command) == split(command) = <<>>
base_command(command) == strip(lower(split(command)[1]))
\* a gate that compares the first token as it was typed
validate_command_as_typed(command) == strip(split(command)[1]) \notin blocked_commands
validate_command(command) == base_command(command) \notin blocked_commands

\* load_blocked_commands: the entries of config.json, as they are
ConfigFile == <<cmd_su>>
load_blocked_commands(config) == {config[i] : i \in DOMAIN config}

----------------------------------------------------------------------------
\* Popen objects and their children.
\* left: the chunks a running child will still write;
\* holder: communicate() waits for a descendant of the child (sh -c "... &"),
\* which holds the write ends of the pipes
NoProc == [pid |-> 0, st |-> "unborn", status |-> 0, returncode |-> None,
           stdout |-> <<>>, stderr |-> <<>>, left |-> 0, holder |-> FALSE]

\* a child that is not started yet and will write k chunks
Unborn(k) == [NoProc EXCEPT !.left = k]

\* Popen.poll: waitpid reaps a child that has exited and sets returncode
poll(P) ==
    IF P.returncode # None THEN P
    ELSE IF P.st = "zombie" THEN [P EXCEPT !.st = "reaped", !.returncode = Some(P.status)]
    ELSE P

\* pids of children the OS still knows (running or not yet reaped)
BusyPids(pr) == {pr[h].pid : h \in {g \in Procs : pr[g].st \in {"running", "zombie"}}}

\* the dict completed_sessions: records in key-insertion order
Keys(c) == {c[i].pid : i \in DOMAIN c}
IndexOf(c, pid) == CHOOSE i \in DOMAIN c : c[i].pid = pid
Lookup(c, pid) == c[IndexOf(c, pid)]
\* d[key] = rec: an existing key keeps its position
DictSet(c, rec) ==
    IF rec.pid \in Keys(c) THEN [c EXCEPT ![IndexOf(c, rec.pid)] = rec] ELSE Append(c, rec)
\* del d[key]
DictDel(c, pid) == SelectSeq(c, LAMBDA r : r.pid # pid)
\* if len(d) > 100: del d[next(iter(d))]
EvictOldest(c) == IF Len(c) > MaxCompleted THEN Tail(c) ELSE c

\* the dict of active sessions
SetActive(a, pid, h) == [q \in (DOMAIN a) \cup {pid} |-> IF q = pid THEN h ELSE a[q]]
DelActive(a, pid) == [q \in (DOMAIN a) \ {pid} |-> a[q]]

CompletedSession(pid, output, exit_code, start_time, end_time) ==
    [pid |-> pid, output |-> output, exit_code |-> exit_code,
     start_time |-> start_time, end_time |-> end_time]

\* responses to the caller
NoResp == [op |-> "none", pid |-> 0, kind |-> "none", out |-> <<>>, code |-> None]
Resp(op, pid, kind, out, code) ==
    [op |-> op, pid |-> pid, kind |-> kind, out |-> out, code |-> code]

----------------------------------------------------------------------------
\* History(k): the records of k earlier commands that completed and were
\* never read.  Their pids lie above PIDS, except that the first of them ran
\* under pid 1.
OldPid(i) == MaxPid + i
OldRecord(pid, i) == CompletedSession(pid, <<>>, Some(0), 0, i)
History(k) == [i \in 1..k |-> OldRecord(IF i = 1 THEN 1 ELSE OldPid(i), i)]

NoCall == [pc |-> "idle", output |-> <<>>, elapsed |-> 0, timeout_ms |-> None,
           early |-> FALSE, result |-> "none"]
NoSession == [last_output |-> <<>>, is_blocked |-> FALSE]

\* the server with the records of `history` retained
Start(history) ==
    /\ impl \in {"tm", "mi"}
    /\ blocked_commands = load_blocked_commands(ConfigFile)
    /\ active_sessions = <<>>
    /\ completed_sessions = history
    /\ proc = [h \in Procs |-> Unborn(MaxChunks)]
    /\ sess = [h \in Procs |-> NoSession]
    /\ call = [h \in Procs |-> NoCall]
    /\ cur = 0
    /\ delayed = [h \in Procs |-> 0]
    /\ log = [h \in Procs |-> <<>>]
    /\ clock = Len(completed_sessions)
    /\ last = NoResp

Init == Start(History(0))

----------------------------------------------------------------------------
\* The operations.  Each is written without the variable last; the
\* next-state relations below add what the caller is told.

\* MCPServer.run awaits each request before it reads the next one, so a
\* TerminalManager operation starts only when no execute_command call is in
\* flight; FastMCP starts a handler whenever the event loop is free.
Running == {"run", "sleep", "communicate"}
Dispatch ==
    /\ cur = 0
    /\ impl = "tm" => \A h \in Procs : call[h].pc \notin Running

\* timeout_ms as it reaches execute_command: tools/execute.py forwards None
\* when the caller gave none
Timeouts == IF impl = "tm" THEN TimeoutsMs \cup {None} ELSE TimeoutsMs

InFlight(h) == call[h].pc \in Running
Returned(result, output) == [NoCall EXCEPT !.pc = "done", !.result = result, !.output = output]

\* The Popen object and the session of h are held by the frame of a running
\* call, by a registered session or by a delayed_kill task.
Held(h, a, ca, d) ==
    \/ ca[h].pc \in Running
    \/ \E pid \in DOMAIN a : a[pid] = h
    \/ d[h] > 0
Referenced(h) == Held(h, active_sessions, call, delayed)

\* Python frees what nothing holds: the pipes of the Popen object are closed,
\* its fields and those of the session are gone.  The child itself stays.
Gone == [NoProc EXCEPT !.st = "reaped"]
CollectProc(pr, a, ca, d) ==
    [h \in Procs |->
        IF Held(h, a, ca, d) \/ pr[h].st = "unborn" THEN pr[h]
        ELSE IF pr[h].st = "reaped" THEN Gone
        ELSE [pr[h] EXCEPT !.stdout = <<>>, !.stderr = <<>>, !.returncode = None, !.left = 0,
                           !.holder = FALSE]]
CollectSess(se, a, ca, d) ==
    [h \in Procs |-> IF Held(h, a, ca, d) THEN se[h] ELSE NoSession]

Unchanged == UNCHANGED <<impl, blocked_commands, active_sessions, completed_sessions,
                         proc, sess, call, cur, delayed, log, clock>>

\* execute_command, the gate raises: "".split()[0]
ExecuteGateError(command) ==
    /\ Dispatch
    /\ GateRaises(command)
    /\ Unchanged

\* execute_command, the gate rejects the command
ExecuteBlocked(command) ==
    /\ Dispatch
    /\ ~GateRaises(command)
    /\ ~validate_command(command)
    /\ Unchanged

\* a failed Popen that takes the registered sessions with it
SpawnFailedDropsSessions(command) ==
    /\ Dispatch
    /\ ~GateRaises(command)
    /\ validate_command(command)
    /\ active_sessions' = <<>>
    /\ UNCHANGED <<impl, blocked_commands, completed_sessions, proc, sess, call, cur,
                   delayed, log, clock>>

\* execute_command, Popen raises
SpawnFailed(command) ==
    /\ Dispatch
    /\ ~GateRaises(command)
    /\ validate_command(command)
    /\ Unchanged

\* execute_command up to the loop: Popen, the session, its registration
Spawn(command, timeout_ms) ==
    /\ Dispatch
    /\ ~GateRaises(command)
    /\ validate_command(command)
    /\ \E h \in Procs, pid \in PIDS \ BusyPids(proc) :
        /\ proc[h].st = "unborn"
        /\ \A g \in Procs : g < h => proc[g].st # "unborn"
        /\ active_sessions' = SetActive(active_sessions, pid, h)
        /\ call' = [call EXCEPT ![h] = [NoCall EXCEPT !.pc = "run", !.timeout_ms = timeout_ms]]
        /\ cur' = h
        /\ proc' = CollectProc([proc EXCEPT ![h] = [@ EXCEPT !.pid = pid, !.st = "running"]],
                               active_sessions', call', delayed)
        /\ sess' = CollectSess([sess EXCEPT ![h] = NoSession], active_sessions', call', delayed)
    /\ UNCHANGED <<impl, blocked_commands, completed_sessions, delayed, log, clock>>

\* execute_command returns before a child exists
execute_command_refused(command) ==
    \/ ExecuteGateError(command)
    \/ ExecuteBlocked(command)
    \/ SpawnFailed(command)

execute_command(command, timeout_ms) ==
    \/ execute_command_refused(command)
    \/ Spawn(command, timeout_ms)

\* while time.time() - start_time < timeout_ms / 1000
LoopCond(now, timeout_ms) == now < timeout_ms

\* the loop is left by the TypeError of None / 1000
LoopRaises(h) ==
    /\ call' = [call EXCEPT ![h] = Returned("error", <<>>)]
    /\ proc' = CollectProc(proc, active_sessions, call', delayed)
    /\ sess' = CollectSess(sess, active_sessions, call', delayed)
    /\ UNCHANGED <<active_sessions, completed_sessions, clock>>

\* after the loop: mark the session blocked and return what was collected
TimedOut(h) ==
    /\ call' = [call EXCEPT ![h] = Returned("still_running", call[h].output)]
    /\ proc' = CollectProc(proc, active_sessions, call', delayed)
    /\ sess' = CollectSess([sess EXCEPT ![h].is_blocked = TRUE], active_sessions, call', delayed)
    /\ UNCHANGED <<active_sessions, completed_sessions, clock>>

\* del self.sessions[process.pid] / if process.pid in active_sessions: del
Unregister(a, pid) == DelActive(a, pid)

\* process.poll() is not None, and process.communicate() reads until every
\* write end of the pipes is closed: while a descendant holds them the call
\* waits inside communicate(), which the event loop cannot leave
Communicate(h) ==
    /\ proc' = [proc EXCEPT ![h] = [poll(proc[h]) EXCEPT !.holder = TRUE]]
    /\ call' = [call EXCEPT ![h].pc = "communicate"]
    /\ UNCHANGED <<active_sessions, completed_sessions, sess, clock>>

\* communicate has returned: record, evict, unregister, return
Complete(h) ==
    LET P == poll(proc[h])
        pid == P.pid
        data == P.stdout \o P.stderr
        output == call[h].output \o data
        last_output == IF impl = "tm" THEN sess[h].last_output \o data
                       ELSE sess[h].last_output
        rec == CompletedSession(pid,
                                IF impl = "tm" THEN output \o last_output ELSE output,
                                P.returncode, h, clock + 1)
        KeyError == impl = "tm" /\ pid \notin DOMAIN active_sessions
    IN  /\ completed_sessions' = EvictOldest(DictSet(completed_sessions, rec))
        /\ clock' = clock + 1
        /\ active_sessions' = Unregister(active_sessions, pid)
        /\ call' = [call EXCEPT ![h] = IF KeyError THEN Returned("error", <<>>)
                                       ELSE Returned("completed", output)]
        /\ proc' = CollectProc([proc EXCEPT ![h] = [P EXCEPT !.stdout = <<>>, !.stderr = <<>>]],
                               active_sessions', call', delayed)
        /\ sess' = CollectSess([sess EXCEPT ![h].last_output = last_output],
                               active_sessions', call', delayed)

\* a drain that assigns what it read to the buffer instead of appending it
DrainAssigns(h, now) ==
    LET data == proc[h].stdout \o proc[h].stderr IN
    /\ proc' = [proc EXCEPT ![h].stdout = <<>>, ![h].stderr = <<>>]
    /\ sess' = [sess EXCEPT ![h].last_output = data]
    /\ call' = [call EXCEPT ![h].pc = "sleep", ![h].output = @ \o data, ![h].elapsed = now]
    /\ UNCHANGED <<active_sessions, completed_sessions, clock>>

\* a drain that keeps the output of the call in the buffer of the session
DrainFromBuffer(h, now) ==
    LET data == proc[h].stdout \o proc[h].stderr IN
    /\ proc' = [proc EXCEPT ![h].stdout = <<>>, ![h].stderr = <<>>]
    /\ sess' = [sess EXCEPT ![h].last_output = @ \o data]
    /\ call' = [call EXCEPT ![h].pc = "sleep", ![h].output = sess[h].last_output \o data,
                            ![h].elapsed = now]
    /\ UNCHANGED <<active_sessions, completed_sessions, clock>>

\* the child still runs: drain both pipes without blocking, then sleep
Drain(h, now) ==
    LET data == proc[h].stdout \o proc[h].stderr IN
    /\ proc' = [proc EXCEPT ![h].stdout = <<>>, ![h].stderr = <<>>]
    /\ sess' = [sess EXCEPT ![h].last_output = @ \o data]
    /\ call' = [call EXCEPT ![h].pc = "sleep", ![h].output = @ \o data, ![h].elapsed = now]
    /\ UNCHANGED <<active_sessions, completed_sessions, clock>>

\* One turn of the loop of execute_command, from waking up to the next await.
\* elapsed is the time the loop has slept; a wake-up delayed by another
\* handler ends the loop sooner, as a shorter timeout_ms does.
\* eof: when the child has ended, no descendant of it holds the pipes.
PollLoop(h, eof) ==
    /\ \/ cur = h /\ call[h].pc = "run"
       \/ cur = h /\ call[h].pc = "communicate" /\ ~proc[h].holder
       \/ cur = 0 /\ call[h].pc = "sleep"
    /\ UNCHANGED <<impl, blocked_commands, delayed, log>>
    /\ LET now == IF call[h].pc = "run" THEN 0 ELSE call[h].elapsed + SleepMs
       IN  IF call[h].pc = "communicate" THEN Complete(h)
           ELSE IF call[h].timeout_ms = None THEN LoopRaises(h)
           ELSE IF ~LoopCond(now, call[h].timeout_ms[1]) THEN TimedOut(h)
           ELSE IF poll(proc[h]).returncode = None THEN Drain(h, now)
           ELSE IF eof THEN Complete(h)
           ELSE Communicate(h)
    /\ cur' = IF call'[h].pc = "communicate" THEN h ELSE 0

\* a read_output that hands the buffer out and leaves it as it is
read_output_keeps(pid) ==
    /\ Dispatch
    /\ IF pid \notin DOMAIN active_sessions /\ pid \in Keys(completed_sessions) /\ impl = "mi"
       THEN completed_sessions' = DictDel(completed_sessions, pid)
       ELSE UNCHANGED completed_sessions
    /\ UNCHANGED <<impl, blocked_commands, active_sessions, proc, sess, call, cur,
                   delayed, log, clock>>

\* a read_output that takes the session it hands output from as running again
read_output_unblocks(pid) ==
    /\ Dispatch
    /\ IF pid \in DOMAIN active_sessions
       THEN /\ sess' = [sess EXCEPT ![active_sessions[pid]] = NoSession]
            /\ UNCHANGED completed_sessions
       ELSE IF pid \in Keys(completed_sessions) /\ impl = "mi"
       THEN /\ completed_sessions' = DictDel(completed_sessions, pid)
            /\ UNCHANGED sess
       ELSE UNCHANGED <<sess, completed_sessions>>
    /\ UNCHANGED <<impl, blocked_commands, active_sessions, proc, call, cur,
                   delayed, log, clock>>

\* read_output / TerminalManager.get_new_output behind tools/execute.read_output
read_output(pid) ==
    /\ Dispatch
    /\ IF pid \in DOMAIN active_sessions
       THEN /\ sess' = [sess EXCEPT ![active_sessions[pid]].last_output = <<>>]
            /\ UNCHANGED completed_sessions
       ELSE IF pid \in Keys(completed_sessions) /\ impl = "mi"
       THEN /\ completed_sessions' = DictDel(completed_sessions, pid)
            /\ UNCHANGED sess
       ELSE UNCHANGED <<sess, completed_sessions>>
    /\ UNCHANGED <<impl, blocked_commands, active_sessions, proc, call, cur,
                   delayed, log, clock>>

\* a read_output that looks the completed record up without asking whether
\* it is there
read_output_reply_unguarded(pid) ==
    IF pid \in DOMAIN active_sessions
    THEN LET output == sess[active_sessions[pid]].last_output IN
         Resp("read_output", pid, IF output = <<>> THEN "no_new_output" ELSE "output",
              output, None)
    ELSE IF pid \in Keys(completed_sessions)
    THEN LET completed == Lookup(completed_sessions, pid) IN
         Resp("read_output", pid, "summary", completed.output, completed.exit_code)
    ELSE Resp("read_output", pid, "error", <<>>, None)

\* what read_output(pid) returns
read_output_reply(pid) ==
    IF pid \in DOMAIN active_sessions
    THEN LET output == sess[active_sessions[pid]].last_output IN
         Resp("read_output", pid, IF output = <<>> THEN "no_new_output" ELSE "output",
              output, None)
    ELSE IF pid \in Keys(completed_sessions)
    THEN LET completed == Lookup(completed_sessions, pid) IN
         Resp("read_output", pid, "summary", completed.output, completed.exit_code)
    ELSE Resp("read_output", pid, "not_found", <<>>, None)

\* list_sessions / TerminalManager.list_active_sessions behind
\* tools/execute.list_sessions: a pass over the active sessions
list_sessions ==
    /\ Dispatch
    /\ Unchanged

\* a list_sessions that reports every session as running
list_sessions_reply_running ==
    Resp("list_sessions", 0,
         IF DOMAIN active_sessions = {} THEN "no_sessions" ELSE "sessions",
         {[pid |-> pid, is_blocked |-> FALSE] : pid \in DOMAIN active_sessions}, None)

\* what list_sessions returns: a line for every active session
list_sessions_reply ==
    Resp("list_sessions", 0,
         IF DOMAIN active_sessions = {} THEN "no_sessions" ELSE "sessions",
         {[pid |-> pid, is_blocked |-> sess[active_sessions[pid]].is_blocked] :
             pid \in DOMAIN active_sessions}, None)

\* a send_signal that signals whatever the pid names
send_signal_unchecked(P, sig, dies) ==
    [P |-> IF dies /\ P.st = "running"
           THEN [P EXCEPT !.st = "zombie", !.status = 0 - sig, !.left = 0] ELSE P,
     sent |-> TRUE]

\* Popen.send_signal: poll first, signal only a child that has not been
\* reaped.  dies: the signal ends the child.
send_signal(P, sig, dies) ==
    LET P1 == poll(P) IN
    IF P1.returncode # None THEN [P |-> P1, sent |-> FALSE]
    ELSE [P |-> IF dies /\ P1.st = "running"
                THEN [P1 EXCEPT !.st = "zombie", !.status = 0 - sig, !.left = 0] ELSE P1,
          sent |-> TRUE]

\* the child during time.sleep(0.5): it may end on its own, with status ends
Grace(P, ends) ==
    IF P.st = "running" /\ ends \in ExitCodes
    THEN [P EXCEPT !.st = "zombie", !.status = ends, !.left = 0] ELSE P

\* exit_code of the record force_terminate writes
TerminatedCode(P) == IF P.returncode # None THEN P.returncode ELSE Some(ForceKilled)

\* the entries of log
SentINT(sent) == IF sent THEN <<"INT">> ELSE <<"NOINT">>
GraceOver(alive, killed) ==
    (IF alive THEN <<"GA">> ELSE <<"GD">>) \o (IF killed THEN <<"KILL">> ELSE <<>>)

\* force_terminate of a pid with no active session
ForceTerminateNoSession(pid) ==
    /\ Dispatch
    /\ pid \notin DOMAIN active_sessions
    /\ Unchanged

\* force_terminate of mcp_implementation.py: SIGINT, time.sleep(0.5), kill if
\* poll() is None, write the record, remove the session.  It never awaits.
ForceTerminateMI(pid, dies, ends) ==
    /\ Dispatch
    /\ impl = "mi"
    /\ pid \in DOMAIN active_sessions
    /\ UNCHANGED <<impl, blocked_commands, call, cur, delayed>>
    /\ LET h == active_sessions[pid]
           S1 == send_signal(proc[h], SIGINT, dies)
           P3 == poll(Grace(S1.P, ends))
           alive == P3.returncode = None
           S2 == send_signal(P3, SIGKILL, TRUE)
           P4 == IF alive THEN S2.P ELSE P3
           rec == CompletedSession(pid, sess[h].last_output, TerminatedCode(P4),
                                   h, clock + 1)
       IN  /\ log' = [log EXCEPT ![h] = @ \o SentINT(S1.sent)
                                          \o GraceOver(alive, alive /\ S2.sent)]
           /\ completed_sessions' = DictSet(completed_sessions, rec)
           /\ clock' = clock + 1
           /\ active_sessions' = DelActive(active_sessions, pid)
           /\ proc' = CollectProc([proc EXCEPT ![h] = P4], active_sessions', call, delayed)
           /\ sess' = CollectSess(sess, active_sessions', call, delayed)

\* TerminalManager.force_terminate: SIGINT, schedule delayed_kill, return True
ForceTerminateTM(pid, dies) ==
    /\ Dispatch
    /\ impl = "tm"
    /\ pid \in DOMAIN active_sessions
    /\ LET h == active_sessions[pid]
           S1 == send_signal(proc[h], SIGINT, dies)
       IN  /\ Len(log[h]) < MaxLog
           /\ proc' = [proc EXCEPT ![h] = S1.P]
           /\ log' = [log EXCEPT ![h] = @ \o SentINT(S1.sent)]
           /\ delayed' = [delayed EXCEPT ![h] = @ + 1]
    /\ UNCHANGED <<impl, blocked_commands, active_sessions, completed_sessions,
                   sess, call, cur, clock>>

force_terminate(pid) ==
    \/ ForceTerminateNoSession(pid)
    \/ \E dies \in BOOLEAN, ends \in {-1} \cup ExitCodes : ForceTerminateMI(pid, dies, ends)
    \/ \E dies \in BOOLEAN : ForceTerminateTM(pid, dies)

\* the task delayed_kill of TerminalManager.force_terminate, after its sleep:
\* if pid in self.sessions: session.process.kill()
delayed_kill(h) ==
    /\ cur = 0
    /\ delayed[h] > 0
    /\ delayed' = [delayed EXCEPT ![h] = @ - 1]
    /\ UNCHANGED <<impl, blocked_commands, active_sessions, completed_sessions,
                   call, cur, clock>>
    /\ LET alive == proc[h].st = "running"
           registered == proc[h].pid \in DOMAIN active_sessions
           S == send_signal(proc[h], SIGKILL, TRUE)
       IN  /\ proc' = CollectProc([proc EXCEPT ![h] = IF registered THEN S.P ELSE @],
                                  active_sessions, call, delayed')
           /\ sess' = CollectSess(sess, active_sessions, call, delayed')
           /\ log' = [log EXCEPT ![h] = @ \o GraceOver(alive, registered /\ S.sent)]

\* kill_process of mcp_implementation.py: psutil terminate(), time.sleep(0.5),
\* kill() if the pid still exists.  It signals whatever process has the pid;
\* a running child ends by SIGTERM or, if it ignores that, by SIGKILL.  In
\* tools/process.py the call asyncio.to_thread() raises before any signal.
kill_process(pid, dies) ==
    /\ Dispatch
    /\ proc' = [h \in Procs |->
                   IF impl = "mi" /\ proc[h].pid = pid /\ proc[h].st = "running"
                   THEN [proc[h] EXCEPT !.st = "zombie", !.left = 0,
                                        !.status = IF dies THEN 0 - SIGTERM ELSE 0 - SIGKILL]
                   ELSE proc[h]]
    /\ UNCHANGED <<impl, blocked_commands, active_sessions, completed_sessions,
                   sess, call, cur, delayed, log, clock>>

----------------------------------------------------------------------------
\* The children and the runtime.

\* a running child writes a chunk to one of its pipes; a chunk is named by
\* the number of chunks the child had left to write
ChildEmit(h, stream) ==
    /\ proc[h].st = "running"
    /\ proc[h].left > 0
    /\ LET chunk == proc[h].left IN
       proc' = [proc EXCEPT ![h].left = @ - 1,
                            ![h].stdout = IF stream = "stdout" THEN Append(@, chunk) ELSE @,
                            ![h].stderr = IF stream = "stderr" THEN Append(@, chunk) ELSE @]
    /\ UNCHANGED <<impl, blocked_commands, active_sessions, completed_sessions,
                   sess, call, cur, delayed, log, clock>>

\* a running child ends on its own; early: it ended while the execute_command
\* call that spawned it was still inside its loop
ChildExit(h, status) ==
    /\ proc[h].st = "running"
    /\ proc' = [proc EXCEPT ![h].st = "zombie", ![h].status = status, ![h].left = 0]
    /\ call' = [call EXCEPT ![h].early = InFlight(h) /\ call[h].timeout_ms # None]
    /\ UNCHANGED <<impl, blocked_commands, active_sessions, completed_sessions,
                   sess, cur, delayed, log, clock>>

\* the descendant that held the pipes ends
DescendantExit(h) ==
    /\ proc[h].holder
    /\ proc' = [proc EXCEPT ![h].holder = FALSE]
    /\ UNCHANGED <<impl, blocked_commands, active_sessions, completed_sessions,
                   sess, call, cur, delayed, log, clock>>

\* subprocess reaps the dead child of a Popen object nothing refers to
\* (Popen.__del__, subprocess._cleanup)
Reap(h) ==
    /\ proc[h].st = "zombie"
    /\ ~Referenced(h)
    /\ proc' = [proc EXCEPT ![h] = Gone]
    /\ UNCHANGED <<impl, blocked_commands, active_sessions, completed_sessions,
                   sess, call, cur, delayed, log, clock>>

----------------------------------------------------------------------------
\* what the step of the loop that ends a call returns
execute_reply(h) ==
    IF call'[h].pc = "done"
    THEN Resp("execute_command", proc[h].pid, call'[h].result, call'[h].output,
              IF call'[h].result = "completed" THEN poll(proc[h]).returncode ELSE None)
    ELSE NoResp

\* a force_terminate that looks the session up without asking whether it is there
force_terminate_reply_unguarded(pid) ==
    Resp("force_terminate", pid,
         IF pid \in DOMAIN active_sessions THEN "terminated" ELSE "error", <<>>, None)

force_terminate_reply(pid) ==
    Resp("force_terminate", pid,
         IF pid \in DOMAIN active_sessions THEN "terminated" ELSE "no_session", <<>>, None)

Silent == last' = NoResp

\* the server, its children and the runtime
Next ==
    \/ \E command \in Commands : execute_command_refused(command) /\ Silent
    \/ \E command \in Commands, timeout_ms \in Timeouts :
          Spawn(command, timeout_ms) /\ Silent
    \/ \E h \in Procs, eof \in BOOLEAN : PollLoop(h, eof) /\ Silent
    \/ \E pid \in PIDS : read_output(pid) /\ Silent
    \/ \E pid \in PIDS : force_terminate(pid) /\ Silent
    \/ list_sessions /\ Silent
    \/ \E h \in Procs : delayed_kill(h) /\ Silent
    \/ \E h \in Procs, stream \in Streams : ChildEmit(h, stream) /\ Silent
    \/ \E h \in Procs, status \in ExitCodes : ChildExit(h, status) /\ Silent
    \/ \E h \in Procs : DescendantExit(h) /\ Silent
    \/ \E h \in Procs : Reap(h) /\ Silent

Spec == Init /\ [][Next]_vars

\* The same server where each step tells what the caller receives, with
\* children that write nothing.
execute_refused(kind, command) == Resp("execute_command", 0, kind, command, None)

\* execute_command and what it answers when it returns at once
execute_command_refused_told(command) ==
    \/ ExecuteGateError(command) /\ last' = execute_refused("error", <<>>)
    \/ ExecuteBlocked(command) /\ last' = execute_refused("blocked", command)
    \/ SpawnFailed(command) /\ last' = execute_refused("spawn_failed", <<>>)

NextReply ==
    \/ \E command \in Commands : execute_command_refused_told(command)
    \/ \E command \in Commands, timeout_ms \in Timeouts :
          Spawn(command, timeout_ms) /\ Silent
    \/ \E h \in Procs, eof \in BOOLEAN : PollLoop(h, eof) /\ last' = execute_reply(h)
    \/ \E pid \in PIDS : read_output(pid) /\ last' = read_output_reply(pid)
    \/ \E pid \in PIDS : force_terminate(pid) /\ last' = force_terminate_reply(pid)
    \/ list_sessions /\ last' = list_sessions_reply
    \/ \E h \in Procs : delayed_kill(h) /\ Silent
    \/ \E h \in Procs, status \in ExitCodes : ChildExit(h, status) /\ Silent
    \/ \E h \in Procs : DescendantExit(h) /\ Silent
    \/ \E h \in Procs : Reap(h) /\ Silent

ReplySpec == Init /\ [][NextReply]_vars

\* The server after MaxCompleted commands have completed, when nothing is
\* read and the children write nothing.
InitHistory == Start(History(MaxCompleted))

NextNoRead ==
    \/ \E command \in Commands : execute_command_refused(command) /\ Silent
    \/ \E command \in Commands, timeout_ms \in Timeouts :
          Spawn(command, timeout_ms) /\ Silent
    \/ \E h \in Procs, eof \in BOOLEAN : PollLoop(h, eof) /\ Silent
    \/ \E pid \in PIDS : force_terminate(pid) /\ Silent
    \/ \E h \in Procs : delayed_kill(h) /\ Silent
    \/ \E h \in Procs, status \in ExitCodes : ChildExit(h, status) /\ Silent
    \/ \E h \in Procs : DescendantExit(h) /\ Silent
    \/ \E h \in Procs : Reap(h) /\ Silent

HistorySpec == InitHistory /\ [][NextNoRead]_vars

\* The server where read_output tells what the caller receives, with children
\* that write.
NextRead ==
    \/ \E command \in Commands : execute_command_refused(command) /\ Silent
    \/ \E command \in Commands, timeout_ms \in Timeouts :
          Spawn(command, timeout_ms) /\ Silent
    \/ \E h \in Procs, eof \in BOOLEAN : PollLoop(h, eof) /\ Silent
    \/ \E pid \in PIDS : read_output(pid) /\ last' = read_output_reply(pid)
    \/ \E pid \in PIDS : force_terminate(pid) /\ Silent
    \/ \E h \in Procs : delayed_kill(h) /\ Silent
    \/ \E h \in Procs, stream \in Streams : ChildEmit(h, stream) /\ Silent
    \/ \E h \in Procs, status \in ExitCodes : ChildExit(h, status) /\ Silent
    \/ \E h \in Procs : DescendantExit(h) /\ Silent
    \/ \E h \in Procs : Reap(h) /\ Silent

\* The server where the first command writes one chunk more and the
\* second writes nothing.
InitOutput ==
    /\ impl \in {"tm", "mi"}
    /\ blocked_commands = load_blocked_commands(ConfigFile)
    /\ active_sessions = <<>>
    /\ completed_sessions = History(0)
    /\ proc = [h \in Procs |-> IF h = 1 THEN Unborn(MaxChunks + 1) ELSE Unborn(0)]
    /\ sess = [h \in Procs |-> NoSession]
    /\ call = [h \in Procs |-> NoCall]
    /\ cur = 0
    /\ delayed = [h \in Procs |-> 0]
    /\ log = [h \in Procs |-> <<>>]
    /\ clock = 0
    /\ last = NoResp

OutputSpec == InitOutput /\ [][NextRead]_vars

\* The server with the process tools beside the terminal tools.
NextProcess ==
    \/ Next
    \/ \E pid \in PIDS, dies \in BOOLEAN : kill_process(pid, dies) /\ Silent

ProcessSpec == Init /\ [][NextProcess]_vars

\* The event loop runs every coroutine that is ready.
LiveSpec == Spec /\ \A h \in Procs : WF_vars(\E eof \in BOOLEAN : PollLoop(h, eof) /\ Silent)

\* The same, with a caller that keeps reading: a read_output that finds
\* something to hand out is eventually served.
ResumeSpec == LiveSpec /\ \A pid \in PIDS : WF_vars(read_output(pid) /\ Silent)

----------------------------------------------------------------------------
\* The path validator _validate_path.  Paths are sequences of characters.
\* Three texts hold it: tools/filesystem.py of py/desktop_commander ("tm") and
\* mcp_implementation.py ("mi"), which are the same, and tools/filesystem.py
\* of src/desktop_commander ("dc").
Slash == "/"
Tilde == "~"
Dot == "."
DotDot == <<Dot, Dot>>

\* the environment of the server: HOME and the working directory
home == <<"/", "u">>
cwd == <<"/", "u", "/", "w">>

\* str.startswith
startswith(s, prefix) == Len(prefix) <= Len(s) /\ SubSeq(s, 1, Len(prefix)) = prefix
endswith(s, suffix) ==
    Len(suffix) <= Len(s) /\ SubSeq(s, Len(s) - Len(suffix) + 1, Len(s)) = suffix

\* str.split("/") and "/".join
RECURSIVE UpToSlash(_)
UpToSlash(s) == IF s = <<>> \/ Head(s) = Slash THEN <<>> ELSE <<Head(s)>> \o UpToSlash(Tail(s))
RECURSIVE SplitSlash(_)
SplitSlash(s) ==
    LET c == UpToSlash(s) IN
    IF Len(c) = Len(s) THEN <<c>> ELSE <<c>> \o SplitSlash(SubSeq(s, Len(c) + 2, Len(s)))
RECURSIVE JoinSlash(_)
JoinSlash(comps) ==
    IF comps = <<>> THEN <<>>
    ELSE IF Len(comps) = 1 THEN comps[1]
    ELSE comps[1] \o <<Slash>> \o JoinSlash(Tail(comps))

\* posixpath.isabs, posixpath.join of two parts
isabs(path) == startswith(path, <<Slash>>)
join(a, b) ==
    IF isabs(b) THEN b
    ELSE IF a = <<>> \/ endswith(a, <<Slash>>) THEN a \o b
    ELSE a \o <<Slash>> \o b

\* posixpath.normpath
RECURSIVE NormComps(_, _, _)
NormComps(comps, new_comps, initial_slashes) ==
    IF comps = <<>> THEN new_comps
    ELSE LET comp == Head(comps) IN
         IF comp = <<>> \/ comp = <<Dot>> THEN NormComps(Tail(comps), new_comps, initial_slashes)
         ELSE IF \/ comp # DotDot
                 \/ (initial_slashes = 0 /\ new_comps = <<>>)
                 \/ (new_comps # <<>> /\ new_comps[Len(new_comps)] = DotDot)
         THEN NormComps(Tail(comps), Append(new_comps, comp), initial_slashes)
         ELSE IF new_comps # <<>>
         THEN NormComps(Tail(comps), SubSeq(new_comps, 1, Len(new_comps) - 1), initial_slashes)
         ELSE NormComps(Tail(comps), new_comps, initial_slashes)
normpath(path) ==
    IF path = <<>> THEN <<Dot>>
    ELSE LET initial_slashes ==
                 IF ~startswith(path, <<Slash>>) THEN 0
                 ELSE IF startswith(path, <<Slash, Slash>>)
                         /\ ~startswith(path, <<Slash, Slash, Slash>>) THEN 2
                 ELSE 1
             body == JoinSlash(NormComps(SplitSlash(path), <<>>, initial_slashes))
             res == [i \in 1..initial_slashes |-> Slash] \o body
         IN  IF res = <<>> THEN <<Dot>> ELSE res

\* posixpath.abspath
abspath(path) == normpath(IF isabs(path) THEN path ELSE join(cwd, path))

\* A file system: links maps the path of a symbolic link to its target (an
\* absolute path), files holds the paths of what exists beside the links.
\* posixpath.realpath: follow the links of every component
RECURSIVE Resolve(_, _, _, _)
Resolve(fs, seen, rest, fuel) ==
    IF rest = <<>> THEN seen
    ELSE LET comp == Head(rest)
             cand == <<Slash>> \o JoinSlash(Append(seen, comp))
         IN  IF comp = <<>> \/ comp = <<Dot>> THEN Resolve(fs, seen, Tail(rest), fuel)
             ELSE IF comp = DotDot
             THEN Resolve(fs, IF seen = <<>> THEN seen ELSE SubSeq(seen, 1, Len(seen) - 1),
                          Tail(rest), fuel)
             ELSE IF cand \in DOMAIN fs.links /\ fuel > 0
             THEN Resolve(fs, <<>>, SplitSlash(fs.links[cand]) \o Tail(rest), fuel - 1)
             ELSE Resolve(fs, Append(seen, comp), Tail(rest), fuel)
MaxLinks == 2
realpath(fs, path) == <<Slash>> \o JoinSlash(Resolve(fs, <<>>, SplitSlash(path), MaxLinks))

\* posixpath.dirname and basename of a normalized absolute path
basename(path) == LET comps == SplitSlash(path) IN comps[Len(comps)]
dirname(path) ==
    LET comps == SplitSlash(path)
        head == <<Slash>> \o JoinSlash(SubSeq(comps, 2, Len(comps) - 1))
    IN  head
\* os.path.islink: lstat of the last component, the directories before it
\* are followed; os.path.exists: stat, every link followed
islink(fs, path) ==
    path # <<Slash>> /\ join(realpath(fs, dirname(path)), basename(path)) \in DOMAIN fs.links
exists(fs, path) ==
    LET real == realpath(fs, path) IN real \in fs.files /\ real \notin DOMAIN fs.links

\* allowed_directories of a call
allowed_directories == <<cwd, home>>

\* normalize_path of the two texts
normalize_path(p) ==
    LET norm_path == lower(normpath(p)) IN
    IF impl = "dc" /\ endswith(norm_path, <<Slash>>)
    THEN SubSeq(norm_path, 1, Len(norm_path) - 1) ELSE norm_path

\* the containment test of the two texts
within(normalized, dir) ==
    IF impl = "dc"
    THEN normalized = normalize_path(dir) \/ startswith(normalized, normalize_path(dir) \o <<Slash>>)
    ELSE startswith(normalized, normalize_path(dir))
is_allowed(normalized) ==
    \E i \in DOMAIN allowed_directories : within(normalized, allowed_directories[i])

\* Expand ~ to user's home directory
expanded_path(requested_path) ==
    IF startswith(requested_path, <<Tilde, Slash>>) \/ requested_path = <<Tilde>>
    THEN join(home, IF requested_path # <<Tilde>> THEN Tail(requested_path) ELSE <<>>)
    ELSE requested_path

\* a validator that returns the path its links lead to
validate_path_resolved(fs, requested_path) ==
    LET absolute == abspath(expanded_path(requested_path))
    IN  IF ~is_allowed(normalize_path(absolute))
        THEN [kind |-> "denied", out |-> absolute]
        ELSE IF exists(fs, absolute) /\ islink(fs, absolute)
                /\ ~is_allowed(normalize_path(realpath(fs, absolute)))
        THEN [kind |-> "denied_symlink", out |-> absolute]
        ELSE [kind |-> "ok", out |-> realpath(fs, absolute)]

\* _validate_path: the absolute path it computed, returned or refused
validate_path(fs, requested_path) ==
    LET absolute == abspath(expanded_path(requested_path))
    IN  IF ~is_allowed(normalize_path(absolute))
        THEN [kind |-> "denied", out |-> absolute]
        ELSE IF exists(fs, absolute) /\ islink(fs, absolute)
                /\ ~is_allowed(normalize_path(realpath(fs, absolute)))
        THEN [kind |-> "denied_symlink", out |-> absolute]
        ELSE [kind |-> "ok", out |-> absolute]

\* the paths asked for
path_file == <<"/", "u", "/", "f">>
path_home == <<"/", "u">>
path_sibling == <<"/", "u", "x">>
path_outside == <<"/", "e", "/", "p">>
path_tilde_file == <<"~", "/", "f">>
path_tilde == <<"~">>
path_relative == <<"f">>
path_link == <<"/", "u", "/", "l">>
path_through == <<"/", "u", "/", "d", "/", "p">>
path_dotdot == <<"/", "u", "/", ".", ".", "/", "e", "/", "p">>
path_upper == <<"/", "U", "/", "f">>
path_slashes == <<"/", "u", "/", "/", ".", "/", "f">>
Paths == {path_file, path_home, path_sibling, path_outside, path_tilde_file, path_tilde,
          path_relative, path_link, path_through, path_dotdot, path_upper, path_slashes}

\* the file systems the server may run on
Files == {<<"/">>, home, cwd, path_file, <<"/", "u", "/", "w", "/", "f">>, path_sibling,
          <<"/", "e">>, path_outside}
NoLinks == [files |-> Files, links |-> <<>>]
Link(path, target) == [q \in {path} |-> target]
LinksOut == [files |-> Files,
             links |-> Link(path_link, path_outside) @@ Link(<<"/", "u", "/", "d">>, <<"/", "e">>)]
LinksIn == [files |-> Files,
            links |-> Link(path_link, path_file) @@ Link(<<"/", "u", "/", "d">>, cwd)]
LinksDangling == [files |-> Files, links |-> Link(path_link, <<"/", "e", "/", "n">>)]
FileSystems == {NoLinks, LinksOut, LinksIn, LinksDangling}

\* what the caller of _validate_path gets, and the file system the call ran on
PathResp(op, fs, path, kind, out) ==
    [op |-> op, fs |-> fs, path |-> path, kind |-> kind, out |-> out]

\* a call of _validate_path: nothing but the answer changes
validate_path_call(requested_path) ==
    /\ last' = LET r == validate_path(last.fs, requested_path)
               IN  PathResp("validate_path", last.fs, requested_path, r.kind, r.out)
    /\ Unchanged

InitPath ==
    /\ impl \in {"tm", "mi", "dc"}
    /\ blocked_commands = load_blocked_commands(ConfigFile)
    /\ active_sessions = <<>>
    /\ completed_sessions = History(0)
    /\ proc = [h \in Procs |-> Unborn(MaxChunks)]
    /\ sess = [h \in Procs |-> NoSession]
    /\ call = [h \in Procs |-> NoCall]
    /\ cur = 0
    /\ delayed = [h \in Procs |-> 0]
    /\ log = [h \in Procs |-> <<>>]
    /\ clock = 0
    /\ \E fs \in FileSystems : last = PathResp("none", fs, <<>>, "none", <<>>)

NextPath == \E requested_path \in Paths : validate_path_call(requested_path)

PathSpec == InitPath /\ [][NextPath]_vars

----------------------------------------------------------------------------
\* The command gate: CommandManager of command_manager.py ("tm") and of
\* mcp_command_manager.py ("mi"), with the tools that call it.

\* what a config.json may hold under blockedCommands
entry_Su == <<"S", "u">>
ConfigFiles == {<<>>, ConfigFile, <<entry_Su>>, <<cmd_su, entry_Su>>}

\* the text the tool returns: str(result) in server.py, a sentence in
\* mcp_command_manager.py
block_text(ok) ==
    IF impl = "mi" THEN (IF ok THEN "is now blocked" ELSE "is already blocked")
    ELSE (IF ok THEN "True" ELSE "False")
unblock_text(ok) ==
    IF impl = "mi" THEN (IF ok THEN "is now unblocked" ELSE "is not blocked")
    ELSE (IF ok THEN "True" ELSE "False")

\* what the caller of block_command / unblock_command gets; saved tells
\* whether the call wrote config.json
GateResp(op, command, ok, kind, saved) ==
    [op |-> op, command |-> command, ok |-> ok, kind |-> kind, saved |-> saved]

GateFrame == UNCHANGED <<impl, active_sessions, completed_sessions, proc, sess, call,
                         cur, delayed, log, clock>>

\* a block_command that adds and saves whatever the set holds
block_command_always(command) ==
    /\ blocked_commands' = blocked_commands \cup {strip(lower(command))}
    /\ last' = GateResp("block_command", command, TRUE, block_text(TRUE), TRUE)
    /\ GateFrame

\* CommandManager.block_command and the tool block_command
block_command(command) ==
    /\ IF strip(lower(command)) \in blocked_commands
       THEN /\ blocked_commands' = blocked_commands
            /\ last' = GateResp("block_command", command, FALSE, block_text(FALSE), FALSE)
       ELSE /\ blocked_commands' = blocked_commands \cup {strip(lower(command))}
            /\ last' = GateResp("block_command", command, TRUE, block_text(TRUE), TRUE)
    /\ GateFrame

\* CommandManager.unblock_command and the tool unblock_command
unblock_command(command) ==
    /\ IF strip(lower(command)) \notin blocked_commands
       THEN /\ blocked_commands' = blocked_commands
            /\ last' = GateResp("unblock_command", command, FALSE, unblock_text(FALSE), FALSE)
       ELSE /\ blocked_commands' = blocked_commands \ {strip(lower(command))}
            /\ last' = GateResp("unblock_command", command, TRUE, unblock_text(TRUE), TRUE)
    /\ GateFrame

\* main(): load_blocked_commands, then the server runs
InitGate ==
    /\ impl \in {"tm", "mi"}
    /\ \E config \in ConfigFiles : blocked_commands = load_blocked_commands(config)
    /\ active_sessions = <<>>
    /\ completed_sessions = History(0)
    /\ proc = [h \in Procs |-> Unborn(MaxChunks)]
    /\ sess = [h \in Procs |-> NoSession]
    /\ call = [h \in Procs |-> NoCall]
    /\ cur = 0
    /\ delayed = [h \in Procs |-> 0]
    /\ log = [h \in Procs |-> <<>>]
    /\ clock = 0
    /\ last = GateResp("none", <<>>, FALSE, "none", FALSE)

NextGate ==
    \/ \E command \in Commands : block_command(command)
    \/ \E command \in Commands : unblock_command(command)

GateSpec == InitGate /\ [][NextGate]_vars

----------------------------------------------------------------------------
\* The two session managers side by side.  They are served the same calls,
\* one call after the other, with the same children: the k-th child gets the
\* pid k in both, and exits inside the loop of its execute_command or runs
\* on past the timeout in both.  What is kept of a manager is the pids of
\* its two collections and what its last call answered.
MaxCalls == 3

Request(op, pid, exits) == [op |-> op, pid |-> pid, exits |-> exits]
Requests ==
    {Request("execute_command", 0, exits) : exits \in BOOLEAN}
    \cup {Request(op, pid, FALSE) : op \in {"read_output", "force_terminate"}, pid \in PIDS}
    \cup {Request("list_sessions", 0, FALSE)}

Manager(sessions, completed, out, listed) ==
    [sessions |-> sessions, completed |-> completed, out |-> out, listed |-> listed]
NoManager == Manager({}, {}, "none", {})

\* the pid of the next child
NextPid(requests) == Len(SelectSeq(requests, LAMBDA r : r.op = "execute_command")) + 1

\* manager m in state M serves the call r; child is the pid a new child gets
Served(m, M, r, child) ==
    CASE r.op = "execute_command" ->
            IF r.exits
            THEN Manager(M.sessions, M.completed \cup {child}, "completed", {})
            ELSE Manager(M.sessions \cup {child}, M.completed, "still_running", {})
      [] r.op = "read_output" ->
            IF r.pid \in M.sessions THEN Manager(M.sessions, M.completed, "found", {})
            ELSE IF r.pid \in M.completed
            THEN Manager(M.sessions,
                         IF m = "mi" THEN M.completed \ {r.pid} ELSE M.completed, "found", {})
            ELSE Manager(M.sessions, M.completed, "not_found", {})
      [] r.op = "force_terminate" ->
            IF r.pid \notin M.sessions THEN Manager(M.sessions, M.completed, "not_found", {})
            ELSE IF m = "mi"
            THEN Manager(M.sessions \ {r.pid}, M.completed \cup {r.pid}, "terminated", {})
            ELSE Manager(M.sessions, M.completed, "terminated", {})
      [] OTHER -> Manager(M.sessions, M.completed, "listed", M.sessions)

\* the calls served so far and the two managers after them
PairResp(requests, tm, mi) == [op |-> "requests", requests |-> requests, tm |-> tm, mi |-> mi]

ServeBoth(r) ==
    /\ Len(last.requests) < MaxCalls
    /\ last' = PairResp(Append(last.requests, r),
                        Served("tm", last.tm, r, NextPid(last.requests)),
                        Served("mi", last.mi, r, NextPid(last.requests)))
    /\ Unchanged

InitPair ==
    /\ impl \in {"tm", "mi"}
    /\ blocked_commands = load_blocked_commands(ConfigFile)
    /\ active_sessions = <<>>
    /\ completed_sessions = History(0)
    /\ proc = [h \in Procs |-> Unborn(MaxChunks)]
    /\ sess = [h \in Procs |-> NoSession]
    /\ call = [h \in Procs |-> NoCall]
    /\ cur = 0
    /\ delayed = [h \in Procs |-> 0]
    /\ log = [h \in Procs |-> <<>>]
    /\ clock = 0
    /\ last = PairResp(<<>>, NoManager, NoManager)

NextPair == \E r \in Requests : ServeBoth(r)

PairSpec == InitPair /\ [][NextPair]_vars

----------------------------------------------------------------------------
\* the session of h is registered under the pid of its child
ActiveAs(h) ==
    /\ proc[h].pid \in DOMAIN active_sessions
    /\ active_sessions[proc[h].pid] = h
\* execute_command has returned "still running" and the session is registered
Blocked(h) == ActiveAs(h) /\ call[h].pc = "done" /\ sess[h].is_blocked

\* read_output and force_terminate find a session or a record under the pid
Resolvable(pid) == pid \in DOMAIN active_sessions \/ pid \in Keys(completed_sessions)

\* the records of completed_sessions written for the session of h
RecordsOf(c, h) == {i \in DOMAIN c : c[i].start_time = h}
EndTimes(c) == {c[i].end_time : i \in DOMAIN c}
NoForcedTermination == \A h \in Procs : log[h] = <<>>

\* C1: in every reachable state each pid is a key of at most one of the
\* active and the completed collection, also when the OS reuses the pid of
\* a child whose completed record is still retained.
C1_PidInOneCollection ==
    \A pid \in PIDS : ~(pid \in DOMAIN active_sessions /\ pid \in Keys(completed_sessions))

\* C2: a read_output that answers with the summary of a completed session
\* removes the record, so that the next read of the pid finds no session.
C2_ReadOnce ==
    [][\A pid \in PIDS :
          (/\ pid \notin DOMAIN active_sessions
           /\ pid \in Keys(completed_sessions)
           /\ read_output(pid)
           /\ last' = read_output_reply(pid))
          => pid \notin Keys(completed_sessions')]_vars

\* C3: the completed collection never holds more than 100 records, whichever
\* path inserts into it.
C3_AtMostMaxCompleted == Len(completed_sessions) <= MaxCompleted

\* C4: after more than 100 completions seen by the poll loop and no read, the
\* completed collection holds exactly the 100 records completed last.
C4_HoldsMostRecent ==
    (NoForcedTermination /\ clock > MaxCompleted)
        => EndTimes(completed_sessions) = (clock - MaxCompleted + 1)..clock

\* C5: execute_command on a command line whose base token is blocked answers
\* that the command is blocked and creates no child, registers no session and
\* leaves both collections as they were.  (A step of execute_command either
\* answers at once or leaves the new call holding the event loop.)
C5_BlockedChangesNothing ==
    [][(cur' # 0 \/ last'.op = "execute_command") =>
       \A command \in Commands :
          (/\ ~GateRaises(command)
           /\ base_command(command) \in blocked_commands
           /\ \/ execute_command_refused_told(command)
              \/ \E timeout_ms \in Timeouts : Spawn(command, timeout_ms) /\ Silent)
          => /\ last' = execute_refused("blocked", command)
             /\ UNCHANGED <<active_sessions, completed_sessions, proc, sess, call, log>>]_vars

C5_Witness == last = execute_refused("blocked", cmd_SU_ls)

\* C6: when the loop of execute_command runs out of time, the call marks the
\* session blocked and returns still-running with the output collected; on
\* return the pid is active, no record of the session was written and no
\* signal was sent to the child.
C6_TimeoutLeavesSessionActive ==
    [][\A h \in Procs :
          (InFlight(h) /\ call'[h].pc = "done" /\ call'[h].result = "still_running")
          => /\ proc[h].pid \in DOMAIN active_sessions'
             /\ active_sessions'[proc[h].pid] = h
             /\ sess'[h].is_blocked
             /\ call'[h].output = call[h].output
             /\ RecordsOf(completed_sessions', h) = {}
             /\ log'[h] = <<>>]_vars

\* C7: a call whose child ended while the call was in its loop returns
\* completed; on return the pid is in the completed collection with the
\* child's exit code and is not active.
C7_ExitInsideWindowCompletes ==
    [][\A h \in Procs :
          (InFlight(h) /\ call[h].early /\ call'[h].pc = "done")
          => /\ call'[h].result = "completed"
             /\ proc[h].pid \notin DOMAIN active_sessions'
             /\ proc[h].pid \in Keys(completed_sessions')
             /\ Lookup(completed_sessions', proc[h].pid).exit_code = Some(proc[h].status)]_vars

\* C8: every execute_command call that started a child eventually returns
\* to its caller.
C8_ExecuteReturns == \A h \in Procs : InFlight(h) ~> (call[h].pc = "done")

\* C9: when force_terminate of an active pid reports success, the pid is no
\* longer active and the completed collection holds a record of it whose
\* exit code is not None.
C9_TerminateRecords ==
    [][\A pid \in PIDS :
          (pid \in DOMAIN active_sessions /\ force_terminate(pid))
          => /\ pid \notin DOMAIN active_sessions'
             /\ pid \in Keys(completed_sessions')
             /\ Lookup(completed_sessions', pid).exit_code # None]_vars

\* C10: force_terminate escalates in a fixed order: SIGKILL is sent only at
\* the end of the grace period, only to a child found alive then and only
\* after SIGINT was sent; a child found alive then is always sent SIGKILL.
C10_EscalationOrder ==
    \A h \in Procs :
        \A i \in DOMAIN log[h] :
            /\ log[h][i] = "KILL" =>
                  /\ i > 1
                  /\ log[h][i - 1] = "GA"
                  /\ \E j \in 1..(i - 1) : log[h][j] = "INT"
            /\ log[h][i] = "GA" => (i < Len(log[h]) /\ log[h][i + 1] = "KILL")

C10_Witness == \E h \in Procs : log[h] = <<"INT", "GA", "KILL">>

\* C11: force_terminate of a pid with no active session (never known, already
\* completed or already read) answers "no active session" as a normal result,
\* sends no signal and leaves the active and the completed collection, the
\* children and the pending tasks as they were.
C11_TerminateWithoutSession ==
    [][\A pid \in PIDS :
          (/\ last'.op = "force_terminate"
           /\ last'.pid = pid
           /\ pid \notin DOMAIN active_sessions)
          => /\ last'.kind = "no_session"
             /\ UNCHANGED <<active_sessions, completed_sessions, proc, log, delayed>>]_vars

C11_Witness ==
    /\ last.op = "force_terminate"
    /\ last.kind = "no_session"
    /\ last.pid \in Keys(completed_sessions)

\* C12: a step of the loop of execute_command whose session force_terminate
\* has already handled does not raise and writes nothing to the completed
\* collection: the record force_terminate wrote is neither overwritten nor
\* inserted again.
C12_LoopAfterTerminate ==
    [][\A h \in Procs :
          (InFlight(h) /\ log[h] # <<>> /\ call'[h] # call[h])
          => /\ call'[h].result # "error"
             /\ completed_sessions' = completed_sessions]_vars

\* C13: read_output of an active session returns the session's buffer as it
\* is and empties it in the same step, so that a read that follows with
\* nothing appended in between finds the buffer empty; a read that finds it
\* empty answers "no new output"; the session stays active and its blocked
\* mark stays as it was.
C13_ReadActiveClears ==
    [][\A pid \in PIDS :
          (/\ last'.op = "read_output"
           /\ last'.pid = pid
           /\ pid \in DOMAIN active_sessions)
          => LET h == active_sessions[pid] IN
             /\ last'.out = sess[h].last_output
             /\ last'.kind = IF sess[h].last_output = <<>> THEN "no_new_output" ELSE "output"
             /\ sess'[h].last_output = <<>>
             /\ sess'[h].is_blocked = sess[h].is_blocked
             /\ active_sessions' = active_sessions
             /\ completed_sessions' = completed_sessions]_vars

\* a read answers "no new output" for a session whose output was read before
C13_Witness ==
    /\ last.op = "read_output"
    /\ last.kind = "no_new_output"
    /\ last.pid \in DOMAIN active_sessions
    /\ call[active_sessions[last.pid]].output # <<>>

\* C14: read_output of a pid that is neither active nor completed answers
\* "no session found" as a normal result and leaves both collections, the
\* sessions and the children as they were.
C14_ReadWithoutSession ==
    [][\A pid \in PIDS :
          (/\ last'.op = "read_output"
           /\ last'.pid = pid
           /\ pid \notin DOMAIN active_sessions
           /\ pid \notin Keys(completed_sessions))
          => /\ last'.kind = "not_found"
             /\ UNCHANGED <<active_sessions, completed_sessions, proc, sess>>]_vars

C14_Witness == last.op = "read_output" /\ last.kind = "not_found"

\* C15: polling can be resumed after execute_command has returned "still
\* running": output that waits in the pipes of the child of a blocked session
\* eventually reaches the session's buffer (from where read_output hands it
\* out).
C15_ResumePolling ==
    \A h \in Procs :
        (Blocked(h) /\ proc[h].stdout \o proc[h].stderr # <<>>)
            ~> (sess[h].last_output # <<>>)

\* C16: a blocked session whose child has ended on its own is eventually
\* moved from the active to the completed collection, without force_terminate.
C16_ExitedSessionCompletes ==
    \A h \in Procs :
        (Blocked(h) /\ proc[h].st = "zombie" /\ log[h] = <<>>)
            ~> (~ActiveAs(h) /\ RecordsOf(completed_sessions, h) # {})

\* C17: the output of every completed record, written on natural completion
\* or on forced termination, is what the loop drained while the session was
\* active, in drain order and each chunk once, followed by what the pipes
\* hold at the end (or, at the least, by nothing), whatever read_output has
\* handed out before.
C17_FullOutput ==
    [][\A h \in Procs : \A i \in DOMAIN completed_sessions' :
          (/\ clock' # clock
           /\ completed_sessions'[i].start_time = h
           /\ completed_sessions'[i].end_time = clock')
          => completed_sessions'[i].output
                 \in {call[h].output,
                      call[h].output \o proc[h].stdout \o proc[h].stderr}]_vars

\* C18: while a session stays active its buffer changes in two ways only.  A
\* turn of the loop appends what it drained (stdout, then stderr) behind what
\* the buffer holds, and a read_output of the pid hands out the whole buffer,
\* in the order of the appends, and leaves it empty.  So every read returns
\* all that was appended before it and not yet returned, and no chunk is lost
\* or handed out twice.
C18_ReadsSeeAppends ==
    [][\A h \in Procs :
          (ActiveAs(h) /\ ActiveAs(h)' /\ sess'[h].last_output # sess[h].last_output)
          => \/ /\ last'.op = "read_output"
                /\ last'.pid = proc[h].pid
                /\ last'.out = sess[h].last_output
                /\ sess'[h].last_output = <<>>
             \/ /\ last'.op # "read_output"
                /\ sess'[h].last_output
                       = sess[h].last_output \o proc[h].stdout \o proc[h].stderr
                /\ call'[h].output = call[h].output \o proc[h].stdout \o proc[h].stderr
                /\ proc'[h].stdout = <<>>
                /\ proc'[h].stderr = <<>>]_vars

\* a read between two appends: it returns the second chunk alone, the first
\* was handed out before
C18_Witness ==
    /\ last.op = "read_output"
    /\ Len(last.out) = 1
    /\ last.pid \in DOMAIN active_sessions
    /\ InFlight(active_sessions[last.pid])
    /\ Len(call[active_sessions[last.pid]].output) = 2

\* C19: the blocked mark of a session, once set, stays set for as long as
\* the session is active: no step of the loop, read_output, force_terminate
\* or delayed_kill clears it.
C19_BlockedStays ==
    [][\A h \in Procs :
          (ActiveAs(h) /\ sess[h].is_blocked /\ ActiveAs(h)')
          => sess'[h].is_blocked]_vars

\* a blocked session that force_terminate has signalled and left active
C19_Witness == \E h \in Procs : ActiveAs(h) /\ sess[h].is_blocked /\ log[h] # <<>>

\* C20: a pid under which neither a session nor a record is found (it was
\* never used, or its record was read or evicted) is found again only when a
\* new child is started with that pid: no other step, of an operation or of
\* a loop still running, registers a session or writes a record under it.
C20_ConsumedStaysConsumed ==
    [][\A pid \in PIDS :
          (~Resolvable(pid) /\ Resolvable(pid)')
          => \E h \in Procs : /\ proc[h].st = "unborn"
                              /\ proc'[h].st = "running"
                              /\ proc'[h].pid = pid]_vars

\* C21: list_sessions changes nothing: the active sessions with their
\* buffers and blocked marks, the completed records, the blocked commands
\* and the children stay as they are; it reports exactly the pids of the
\* active sessions, each with the blocked mark its session has.
C21_ListChangesNothing ==
    [][last'.op = "list_sessions" =>
          /\ UNCHANGED <<blocked_commands, active_sessions, completed_sessions,
                         proc, sess, call, delayed, log>>
          /\ {r.pid : r \in last'.out} = DOMAIN active_sessions
          /\ \A r \in last'.out : r.is_blocked = sess[active_sessions[r.pid]].is_blocked]_vars

\* a list that reports a blocked session
C21_Witness == last.op = "list_sessions" /\ \E r \in last.out : r.is_blocked

\* C22: only force_terminate interrupts a running command: a step in which
\* the running child of an active session is ended by a signal is a step of
\* force_terminate or of its delayed_kill, which leave their trace in log.
C22_OnlyTerminateInterrupts ==
    [][\A h \in Procs :
          (/\ ActiveAs(h)
           /\ proc[h].st = "running"
           /\ proc'[h].st # "running"
           /\ proc'[h].status < 0)
          => log'[h] # log[h]]_vars

\* the containment rule: the normalized path is the normalized form of an
\* allowed directory, or starts with that form followed by a separator
Contained(path) ==
    LET n == lower(normpath(path)) IN
    \E i \in DOMAIN allowed_directories :
        LET d == lower(normpath(allowed_directories[i])) IN
        n = d \/ startswith(n, d \o <<Slash>>)

\* C23: _validate_path lets a path pass its containment check if and only if
\* the normalized absolute form of the path is the normalized form of an
\* allowed directory or starts with that form followed by a separator; a
\* sibling whose name extends the name of an allowed directory, and a path
\* outside every allowed directory, are denied.
C23_ContainmentRule ==
    last.op = "validate_path" => (last.kind = "denied" <=> ~Contained(last.out))

\* C24: _validate_path rejects every requested path that is textually inside
\* an allowed directory and whose real target, all symbolic links followed,
\* lies outside all of them: a last component that is a link, and a path
\* through a directory that is a link.
C24_RealTargetInside ==
    (/\ last.op = "validate_path"
     /\ Contained(last.out)
     /\ ~Contained(realpath(last.fs, last.out)))
    => last.kind # "ok"

\* C25: _validate_path expands a leading ~: "~/" followed by r is accepted
\* and gives home, a separator and r; "~" alone gives home.
C25_TildeExpands ==
    /\ (last.op = "validate_path" /\ startswith(last.path, <<Tilde, Slash>>))
       => (last.kind = "ok" /\ last.out = home \o Tail(last.path))
    /\ (last.op = "validate_path" /\ last.path = <<Tilde>>)
       => (last.kind = "ok" /\ last.out = home)

\* C26: an accepted call of _validate_path returns the absolute path it
\* computed before it followed any link, and a call, accepted or rejected,
\* leaves the file system and the state of the server as they were.
C26_ReturnsUnresolved ==
    [][last'.op = "validate_path" =>
          /\ last'.kind = "ok" => last'.out = abspath(expanded_path(last'.path))
          /\ last'.fs = last.fs
          /\ UNCHANGED <<impl, blocked_commands, active_sessions, completed_sessions,
                         proc, sess, call, cur, delayed, log, clock>>]_vars

\* an accepted path whose last component is a link
C26_Witness ==
    /\ last.op = "validate_path"
    /\ last.kind = "ok"
    /\ islink(last.fs, last.out)
    /\ realpath(last.fs, last.out) # last.out

\* C27: block_command and unblock_command key the blocked set as
\* validate_command looks it up, by the lower-cased first token of the
\* command line: after a block_command that succeeded the command is not
\* allowed, after an unblock_command that succeeded it is allowed.
C27_GateKey ==
    (/\ last.op \in {"block_command", "unblock_command"}
     /\ last.ok
     /\ split(last.command) # <<>>)
    => (validate_command(last.command) <=> last.op = "unblock_command")

C29_NoCaseDuplicates ==
    /\ \A a, b \in blocked_commands : lower(a) = lower(b) => a = b
    /\ \A c \in Commands :
          (/\ split(c) # <<>>
           /\ \E e \in blocked_commands : lower(e) = lower(split(c)[1]))
          => ~validate_command(c)

\* C30: an execute_command whose Popen raises reports the failure and
\* nothing else: no session is registered for it, and the children, the
\* sessions, the calls in flight and the completed records stay as they are.
C30_SpawnFailureIsLocal ==
    [][last'.kind = "spawn_failed" =>
          /\ last'.op = "execute_command"
          /\ UNCHANGED <<blocked_commands, active_sessions, completed_sessions,
                         proc, sess, call, cur, delayed, log>>]_vars

\* a spawn failure while another command is running in its session
C30_Witness ==
    /\ last.kind = "spawn_failed"
    /\ DOMAIN active_sessions # {}
    /\ \E h \in Procs : InFlight(h)

\* C31: the output execute_command returns is what its loop took from the
\* pipes, chunk after chunk: a turn of the loop that goes back to sleep, and
\* the turn that returns "completed", add what the pipes held; the turn that
\* returns "still running" adds nothing; and no other step, a read_output of
\* the same pid that clears the buffer of the session included, changes what
\* the call has collected.
C31_ExecuteOutputIsDrained ==
    [][\A h \in Procs :
          InFlight(h) =>
             LET pipes == proc[h].stdout \o proc[h].stderr IN
             /\ (call'[h].pc = call[h].pc /\ call'[h].elapsed = call[h].elapsed)
                => call'[h].output = call[h].output
             /\ (call'[h].pc = "sleep" /\ call'[h].elapsed # call[h].elapsed)
                => call'[h].output = call[h].output \o pipes
             /\ (call'[h].pc = "sleep" /\ call[h].pc = "run")
                => call'[h].output = call[h].output \o pipes
             /\ call'[h].pc = "communicate" => call'[h].output = call[h].output
             /\ call'[h].result = "completed" => call'[h].output = call[h].output \o pipes
             /\ call'[h].result = "still_running" => call'[h].output = call[h].output]_vars

\* a call that returned a chunk which a read_output had taken from the
\* buffer of its session meanwhile
C31_Witness ==
    \E h \in Procs :
        /\ call[h].result = "still_running"
        /\ ActiveAs(h)
        /\ call[h].output # <<>>
        /\ sess[h].last_output = <<>>

\* C32: no execute_command leaves an orphan session: a session that is
\* registered belongs to a call that is still in its loop or that returned a
\* result for the pid; a call made without timeout_ms does not fail once
\* its child is registered.
C32_NoOrphanSession ==
    \A h \in Procs :
        (ActiveAs(h) /\ ~InFlight(h)) => call[h].result \in {"still_running", "completed"}

\* the active record of q is as it was
ActiveKept(q) ==
    /\ (q \in DOMAIN active_sessions) = (q \in DOMAIN active_sessions')
    /\ q \in DOMAIN active_sessions =>
          /\ active_sessions'[q] = active_sessions[q]
          /\ sess'[active_sessions[q]] = sess[active_sessions[q]]

\* the completed record of q is as it was
CompletedKept(q) ==
    /\ (q \in Keys(completed_sessions)) = (q \in Keys(completed_sessions'))
    /\ q \in Keys(completed_sessions) =>
          Lookup(completed_sessions', q) = Lookup(completed_sessions, q)

\* the record of q is the oldest one, and it goes as one record too many
EvictedAsOldest(q) ==
    /\ q \in Keys(completed_sessions)
    /\ q \notin Keys(completed_sessions')
    /\ Len(completed_sessions') >= MaxCompleted
    /\ \A i \in DOMAIN completed_sessions :
          Lookup(completed_sessions, q).end_time <= completed_sessions[i].end_time

\* C33: sessions are independent: read_output(p), force_terminate(p) and a
\* turn of the loop of the execute_command that runs p leave the active
\* record and the completed record of every other pid q as they were, but
\* for the oldest completed record, which goes when the completion of p
\* makes the records one too many.
C33_SessionsIndependent ==
    [][\A p \in PIDS :
          (\/ read_output(p)
           \/ force_terminate(p)
           \/ \E h \in Procs, eof \in BOOLEAN : proc[h].pid = p /\ PollLoop(h, eof))
          => /\ \A q \in (DOMAIN active_sessions \cup DOMAIN active_sessions') \ {p} :
                   ActiveKept(q)
             /\ \/ completed_sessions' = completed_sessions
                \/ \A q \in (Keys(completed_sessions) \cup Keys(completed_sessions')) \ {p} :
                      CompletedKept(q) \/ EvictedAsOldest(q)]_vars

\* C34: validate_command is total: for every command line, the empty one
\* and one of blanks included, it returns a boolean and raises nothing, so
\* an execute_command that ends before a child exists was either refused
\* by the gate or failed to spawn.
C34_GateIsTotal ==
    (last.op = "execute_command" /\ last.pid = 0) => last.kind \in {"blocked", "spawn_failed"}

\* C35: TerminalManager behind tools/execute.py and the functions of
\* mcp_implementation.py, served the same calls with the same children,
\* keep the same pids in their active and completed collections and answer
\* every call with the same outcome.
C35_ManagersEquivalent == last.op = "requests" => last.tm = last.mi

====
